---- MODULE Spec2Model ----
(***************************************************************************)
(* State-machine model of the chat client's ChatContainer component        *)
(* (message stream sync and typing indicator) together with the part of    *)
(* the backing store and of the realtime channels it talks to.             *)
(*                                                                         *)
(* One action is one event-loop turn of the component: a React effect, an  *)
(* event handler up to its first await, or the continuation after an       *)
(* await.  The store, the change feed and the broadcast channel are the    *)
(* environment; their steps are separate actions.                          *)
(*                                                                         *)
(* The component is modelled as its effect is written: it stays mounted    *)
(* while conversationId changes (the effect depends on [conversationId]),  *)
(* so its state outlives a switch of conversation.  The header name        *)
(* (fetchConversationDetails) and the scroll position are left out: no     *)
(* handler reads them.  A setTimeout callback runs when its delay has      *)
(* elapsed, before the clock moves on.                                     *)
(*                                                                         *)
(* ChatSidebar (conversation list, user search, new-conversation form) and *)
(* the pages of the app router are modelled beside it, each with its own   *)
(* specification: SpecList follows fetchConversations while other clients  *)
(* create conversations, SpecSidebar the form and createConversation as    *)
(* the user can drive them, SpecCreate the createConversation handler on   *)
(* any form input, SpecSearch the form from a shown search result on,     *)
(* SpecRoute the session checks and redirects of the pages, SpecNavigate   *)
(* the server-rendered routes under a fixed session.  SpecTypingFair adds  *)
(* the fairness of the event loop to the typing indicator.                 *)
(* The sidebar is followed within one mount; router.push targets           *)
(* are recorded.  The store is taken with and without the row-level        *)
(* policies of the schema file (rls); conversation names are left out.     *)
(***************************************************************************)
EXTENDS Integers, Sequences, FiniteSets, TLC

\* ---------------------------------------------------------------- bounds
MaxMsgs == 2          \* messages ever created (by anyone)
MaxOpens == 2         \* conversation navigations of the component
MaxRedeliver == 1     \* duplicate deliveries of change-feed events
MaxSubmits == 1       \* submissions of the composer form
MaxTypingEvents == 2  \* typing broadcasts received
MaxClock == 2200      \* the wall clock stops advancing here (milliseconds)
MaxNewConvs == 2      \* conversations created during the session
MaxSearches == 1      \* searchUsers queries started
MaxSelected == 3      \* entries of selectedUsers
MaxNavs == 2          \* navigations the user starts

\* ---------------------------------------------------------------- inputs
userId == "u1"                    \* the local user (prop userId)
OtherUsers == {"u2", "u3"}        \* the other participants
RemoteAuthors == {"u2"}           \* those of them who send messages
AllUsers == {userId} \cup OtherUsers
Convs == {"c1", "c2"}             \* conversation identifiers
NoConv == "none"                  \* params.id undefined
NoUser == "undefined"             \* Message.user absent

\* Composer texts: empty, whitespace-only, and text with surrounding blanks.
Texts == { <<>>, <<" ">>, <<" ", "a">> }

\* ------------------------------------------------------- pure functions
IsSpace(ch) == ch = " "

RECURSIVE TrimStart(_)
TrimStart(s) ==
  IF s = <<>> THEN <<>>
  ELSE IF IsSpace(Head(s)) THEN TrimStart(Tail(s)) ELSE s

RECURSIVE TrimEnd(_)
TrimEnd(s) ==
  IF s = <<>> THEN <<>>
  ELSE IF IsSpace(s[Len(s)]) THEN TrimEnd(SubSeq(s, 1, Len(s) - 1)) ELSE s

\* String.prototype.trim
Trim(s) == TrimEnd(TrimStart(s))

\* The guard of handleSendMessage: !newMessage.trim() || !conversationId
SendRejected_NoTrim(text, conv) == text = <<>> \/ conv = NoConv
SendRejected(text, conv) == Trim(text) = <<>> \/ conv = NoConv

Ids(seq) == { seq[i].id : i \in 1..Len(seq) }

Count(seq, id) == Cardinality({ i \in 1..Len(seq) : seq[i].id = id })

\* prev.filter((msg) => msg.id !== messageId)
RemoveById_Pop(seq, id) == SubSeq(seq, 1, Len(seq) - 1)
RemoveById(seq, id) == SelectSeq(seq, LAMBDA m : m.id # id)

\* A local entry: the row plus the optional author summary.
Entry(row, user) ==
  [id |-> row.id, conversation_id |-> row.conversation_id,
   user_id |-> row.user_id, content |-> row.content,
   created_at |-> row.created_at, user |-> user]

\* Insertion of one entry into a sequence sorted by created_at.
RECURSIVE InsertSorted(_, _)
InsertSorted(seq, e) ==
  IF seq = <<>> THEN <<e>>
  ELSE IF e.created_at < Head(seq).created_at THEN <<e>> \o seq
       ELSE <<Head(seq)>> \o InsertSorted(Tail(seq), e)

\* .order("created_at", { ascending: true })
RECURSIVE SortByCreatedAt(_)
SortByCreatedAt(seq) ==
  IF seq = <<>> THEN <<>>
  ELSE InsertSorted(SortByCreatedAt(Tail(seq)), Head(seq))

\* The history query: rows of one conversation, ascending by created_at,
\* each with the first joined profile as its author summary.
HistoryOf(rows, conv) ==
  LET mine == SelectSeq(rows, LAMBDA r : r.conversation_id = conv)
      sorted == SortByCreatedAt(mine)
  IN [i \in 1..Len(sorted) |-> Entry(sorted[i], sorted[i].user_id)]

\* ------------------------------------------------------------------ state
VARIABLES
  conversationId,  \* params.id of the mounted component
  messages,        \* useState<Message[]>
  newMessage,      \* useState("") : the composer text
  loading,         \* useState(false)
  typingUsers,     \* useState<string[]>
  timers,          \* pending setTimeout callbacks: [user, due]
  clock,           \* wall clock, in milliseconds
  store,           \* the messages table, in persistence order
  nextId,          \* next identifier uuidv4 hands out
  inserts,         \* insert requests of handleSendMessage in flight
  fetches,         \* history queries of fetchMessages in flight
  msgSubs,         \* conversations with a live postgres_changes channel
  typingSubs,      \* conversations with a live typing broadcast channel
  lookups,         \* per message id, profile lookups in flight
  shownErrors,     \* errors the component shows to the user or hands its caller
  typingLog,       \* per user, the receipt times of typing events (history)
  opens, redelivers, submits  \* counters that bound the model

chatVars == <<conversationId, messages, newMessage, loading, typingUsers,
              timers, clock, store, nextId, inserts, fetches, msgSubs,
              typingSubs, lookups, shownErrors, typingLog, opens, redelivers,
              submits>>

\* The rest of the store, and ChatSidebar.
VARIABLES
  convRows,            \* the conversations table, in creation order
  memberRows,          \* the user_conversations table
  rls,                 \* are the row-level policies of the schema installed
  nextConv,            \* conversation identifiers handed out so far
  changeEvents,        \* postgres_changes events on conversations to deliver
  activeConversations, \* useState(conversations)
  refreshes,           \* fetchConversations queries in flight
  issued,              \* fetchConversations calls so far
  listAsOf,            \* history: the tables as the query behind the list saw them
  showNewChatModal,    \* useState(false)
  searchUserTerm,      \* useState("")
  searchResults,       \* useState<User[]>([])
  selectedUsers,       \* useState<User[]>([])
  isGroup,             \* useState(false)
  groupName,           \* useState("")
  isLoading,           \* useState(false)
  error,               \* useState("")
  debounce,            \* the pending setTimeout of the search effect
  searches,            \* searchUsers queries in flight
  creates,             \* createConversation calls in flight
  pushed,              \* router.push targets, in order
  started              \* searchUsers queries started so far

storeVars == <<convRows, memberRows, rls, nextConv, changeEvents>>
listVars == <<activeConversations, refreshes, issued, listAsOf>>
formVars == <<showNewChatModal, searchUserTerm, searchResults, selectedUsers,
              isGroup, groupName, isLoading, error, debounce, searches,
              creates, pushed, started>>
sidebarVars == <<storeVars, listVars, formVars>>

\* The pages of the app router.
VARIABLES
  session,   \* the session the auth cookie stands for
  route,     \* the path the browser is at
  view,      \* the page the browser shows
  hops,      \* the routes redirected from since the last navigation
  profile,   \* ProfilePage: loading, error and the position of getProfile
  navs       \* counter that bounds the model

routeVars == <<session, route, view, hops, profile, navs>>

outsideChat == <<sidebarVars, routeVars>>

vars == <<chatVars, sidebarVars, routeVars>>

typVars == <<typingUsers, timers, typingLog>>

\* ------------------------------------------------ conversation tables
\* Identifiers uuidv4 hands out for new conversations, in order.
NewConvIds == <<"n1", "n2", "n3", "n4">>
NewConvId(k) == NewConvIds[k]

ConvRow(id, group, by) == [id |-> id, is_group |-> group, created_by |-> by]
MemberRow(u, c, admin) == [user_id |-> u, conversation_id |-> c, is_admin |-> admin]

ConvIds(convs) == { convs[i].id : i \in 1..Len(convs) }

\* The conversations that have any membership row at all.
ConversationsOf_AnyMember(members, u) ==
  { m.conversation_id : m \in members }

\* The conversations a user has a user_conversations row for.
ConversationsOf(members, u) ==
  { m.conversation_id : m \in { x \in members : x.user_id = u } }

Reverse(seq) == [i \in 1..Len(seq) |-> seq[Len(seq) + 1 - i]]

\* from("conversations").select("..., user_conversations!inner(user_id)")
\*   .eq("user_conversations.user_id", userId)
\*   .order("created_at", { ascending: false })
\* convs is in creation order, so created_at descending is its reverse.
SelectConversations_NoJoin(convs, members, u) == Reverse(convs)
SelectConversations(convs, members, u) ==
  Reverse(SelectSeq(convs, LAMBDA c : c.id \in ConversationsOf(members, u)))

\* The messages of a conversation among the first n rows of the table.
MessagesOf(msgs, n, c) ==
  { msgs[i].id : i \in { j \in 1..n : msgs[j].conversation_id = c } }

\* last_message:messages(...) with .limit(1, { foreignTable: "messages" }) and
\* no order on the embedded rows: one message of the conversation, whichever
\* the store returns first, or none when it has none.
Annotations(msgs, c) ==
  IF MessagesOf(msgs, Len(msgs), c) = {}
  THEN { <<>> }
  ELSE { <<m>> : m \in MessagesOf(msgs, Len(msgs), c) }

\* The results the conversation query of user u may return.
ListResults(convs, members, msgs, u) ==
  LET base == SelectConversations(convs, members, u)
      all == { <<>> } \cup { <<m>> : m \in Ids(msgs) }
  IN { [i \in 1..Len(base) |->
          [id |-> base[i].id, last_message |-> f[i]]] :
       f \in { g \in [1..Len(base) -> all] :
                 \A i \in 1..Len(base) :
                   g[i] \in Annotations(msgs, base[i].id) } }

\* What a query sees, and which call of fetchConversations made it (0: the
\* query of the page): the history kept with its result.
AsOf(convs, members, msgs, n) ==
  [convs |-> convs, members |-> members, msgs |-> Len(msgs), n |-> n]

\* The tables before the session: a direct conversation of the local user
\* with u2 and a group that u2 created with all three users.
SeedMembers ==
  { MemberRow(userId, "c1", FALSE), MemberRow("u2", "c1", FALSE),
    MemberRow("u2", "c2", TRUE), MemberRow(userId, "c2", FALSE),
    MemberRow("u3", "c2", FALSE) }

InitTables ==
  /\ convRows = << ConvRow("c1", FALSE, userId), ConvRow("c2", TRUE, "u2") >>
  /\ memberRows = SeedMembers
  /\ nextConv = 0
  /\ changeEvents = 0

\* ChatSidebar as mounted by the page: the list is the result of the page's
\* query, the new-conversation form is empty and closed.
InitSidebar ==
  /\ activeConversations \in ListResults(convRows, memberRows, store, userId)
  /\ listAsOf = AsOf(convRows, memberRows, store, 0)
  /\ refreshes = {}
  /\ issued = 0
  /\ showNewChatModal = FALSE
  /\ searchUserTerm = <<>>
  /\ searchResults = <<>>
  /\ selectedUsers = <<>>
  /\ isGroup = FALSE
  /\ groupName = <<>>
  /\ isLoading = FALSE
  /\ error = ""
  /\ debounce = {}
  /\ searches = {}
  /\ creates = {}
  /\ pushed = <<>>
  /\ started = 0

\* A signed-in browser at /chat.
InitRoute ==
  /\ session = "active"
  /\ route = "/chat"
  /\ view = "/chat"
  /\ hops = <<>>
  /\ profile = [loading |-> FALSE, error |-> FALSE, pending |-> FALSE]
  /\ navs = 0

InitOutside == InitTables /\ rls = TRUE /\ InitSidebar /\ InitRoute

MsgIds == 1..MaxMsgs

InitChat ==
  /\ conversationId = NoConv
  /\ messages = <<>>
  /\ newMessage = <<>>
  /\ loading = FALSE
  /\ typingUsers = <<>>
  /\ timers = {}
  /\ clock = 0
  /\ store = <<>>
  /\ nextId = 1
  /\ inserts = {}
  /\ fetches = {}
  /\ msgSubs = {}
  /\ typingSubs = {}
  /\ lookups = [i \in MsgIds |-> 0]
  /\ shownErrors = {}
  /\ opens = 0
  /\ redelivers = 0
  /\ submits = 0
  /\ typingLog = [u \in AllUsers |-> <<>>]

Init == InitChat /\ InitOutside

\* The row of the messages table with the given identifier.
Row(id) == CHOOSE r \in { store[i] : i \in 1..Len(store) } : r.id = id

\* The change feed hands an inserted row to the postgres_changes callback of
\* the channel of its conversation, when such a channel is subscribed, and the
\* callback starts fetchMessageWithUser: one profile lookup per delivery is in
\* flight.  Events reach a channel in persistence order; a duplicate delivery
\* (at-least-once) starts a second lookup.  The time an event spends in the
\* channel and the time its lookup takes are one latency here.
Deliver(lk, row, dup) ==
  IF row.conversation_id \in msgSubs
  THEN [lk EXCEPT ![row.id] = @ + (IF dup THEN 2 ELSE 1)]
  ELSE lk

MayDeliver(conv, dup) ==
  dup => (conv \in msgSubs /\ redelivers < MaxRedeliver)

\* ------------------------------------------------- conversation change
\* useEffect([conversationId]): fetchMessages up to its await, then
\* subscribeToMessages and subscribeToTyping.  The cleanup functions the two
\* subscribe calls return are dropped by the effect, so no channel is removed.
OpenConversation(c) ==
  /\ c # conversationId
  /\ opens < MaxOpens
  /\ conversationId' = c
  /\ opens' = opens + 1
  /\ loading' = TRUE
  /\ fetches' = fetches \cup
       {[n |-> opens + 1, conv |-> c, phase |-> "sent", result |-> <<>>]}
  /\ msgSubs' = msgSubs \cup {c}
  /\ typingSubs' = typingSubs \cup {c}
  /\ UNCHANGED <<messages, newMessage, clock, store, nextId, inserts,
                 lookups, shownErrors, redelivers, submits, typVars>>
  /\ UNCHANGED outsideChat

\* ------------------------------------------------------- fetchMessages
\* The store evaluates the history query.
FetchServe(f) ==
  /\ f \in fetches
  /\ f.phase = "sent"
  /\ fetches' = (fetches \ {f}) \cup
       {[f EXCEPT !.phase = "ok", !.result = HistoryOf(store, f.conv)]}
  /\ UNCHANGED <<conversationId, messages, newMessage, loading, clock, store,
                 nextId, inserts, msgSubs, typingSubs, lookups, shownErrors,
                 opens, redelivers, submits, typVars>>
  /\ UNCHANGED outsideChat

\* Continuation of fetchMessages, success branch: setMessages(transformedData).
FetchOk(f) ==
  /\ f \in fetches
  /\ f.phase = "ok"
  /\ messages' = f.result
  /\ loading' = FALSE
  /\ fetches' = fetches \ {f}
  /\ UNCHANGED <<conversationId, newMessage, clock, store, nextId, inserts,
                 msgSubs, typingSubs, lookups, shownErrors, opens, redelivers,
                 submits, typVars>>
  /\ UNCHANGED outsideChat

\* Continuation of fetchMessages, error branch: console.error (the developer
\* console is no state of the component), the sequence is left as it is.
FetchFail(f) ==
  /\ f \in fetches
  /\ f.phase = "sent"
  /\ loading' = FALSE
  /\ fetches' = fetches \ {f}
  /\ UNCHANGED <<conversationId, messages, newMessage, clock, store, nextId,
                 inserts, msgSubs, typingSubs, lookups, shownErrors, opens,
                 redelivers, submits, typVars>>
  /\ UNCHANGED outsideChat

\* -------------------------------------------------------------- composer
\* onChange of the input: setNewMessage(e.target.value)
SetNewMessage(t) ==
  /\ t \in Texts
  /\ t # newMessage
  /\ newMessage' = t
  /\ UNCHANGED <<conversationId, messages, loading, clock, store, nextId,
                 inserts, fetches, msgSubs, typingSubs, lookups, shownErrors,
                 opens, redelivers, submits, typVars>>
  /\ UNCHANGED outsideChat

\* The record handleSendMessage builds (newMessageObj).
NewMessageObj(id, conv, text, at) ==
  [id |-> id, conversation_id |-> conv, user_id |-> userId,
   content |-> text, created_at |-> at]

\* handleSendMessage up to its await: the guard, the optimistic append, the
\* composer reset and the insert request.  `pre` records the sequence as it
\* was when the handler ran (a history value, read by no action).
HandleSendMessage ==
  /\ submits < MaxSubmits
  /\ SendRejected(newMessage, conversationId) \/ nextId <= MaxMsgs
  /\ submits' = submits + 1
  /\ IF SendRejected(newMessage, conversationId)
     THEN UNCHANGED <<messages, newMessage, nextId, clock, inserts>>
     ELSE LET obj == NewMessageObj(nextId, conversationId, newMessage, clock)
          IN /\ messages' = Append(messages, Entry(obj, NoUser))
             /\ newMessage' = <<>>
             /\ nextId' = nextId + 1
             /\ clock' = clock + 1
             /\ inserts' = inserts \cup
                  {[msg |-> obj, phase |-> "sent", pre |-> messages]}
  /\ UNCHANGED <<conversationId, loading, store, fetches, msgSubs, typingSubs,
                 lookups, shownErrors, opens, redelivers, typVars>>
  /\ UNCHANGED outsideChat

\* The store persists the row of an insert request; the change feed sees it.
PersistRow(r, dup) ==
  /\ r \in inserts
  /\ r.phase = "sent"
  /\ MayDeliver(r.msg.conversation_id, dup)
  /\ store' = Append(store, r.msg)
  /\ lookups' = Deliver(lookups, r.msg, dup)
  /\ redelivers' = IF dup THEN redelivers + 1 ELSE redelivers
  /\ inserts' = (inserts \ {r}) \cup {[r EXCEPT !.phase = "stored"]}
  /\ UNCHANGED <<conversationId, messages, newMessage, loading, clock, nextId,
                 fetches, msgSubs, typingSubs, shownErrors, opens, submits,
                 typVars>>
  /\ UNCHANGED outsideChat

\* Continuation of handleSendMessage, error === null: nothing more to do.
PersistOk(r) ==
  /\ r \in inserts
  /\ r.phase = "stored"
  /\ inserts' = inserts \ {r}
  /\ UNCHANGED <<conversationId, messages, newMessage, loading, clock, store,
                 nextId, fetches, msgSubs, typingSubs, lookups, shownErrors,
                 opens, redelivers, submits, typVars>>
  /\ UNCHANGED outsideChat

\* Continuation of handleSendMessage, error branch: console.error, then the
\* optimistic record is filtered out; the handler returns normally and sets
\* no error state.
PersistFail(r) ==
  /\ r \in inserts
  /\ r.phase = "sent"
  /\ messages' = RemoveById(messages, r.msg.id)
  /\ inserts' = inserts \ {r}
  /\ UNCHANGED <<conversationId, newMessage, loading, clock, store, nextId,
                 fetches, msgSubs, typingSubs, lookups, shownErrors, opens,
                 redelivers, submits, typVars>>
  /\ UNCHANGED outsideChat

\* ------------------------------------------------------------ live inserts
\* Another client persists a message in some conversation.
RemoteInsert(c, u, dup) ==
  /\ nextId <= MaxMsgs
  /\ MayDeliver(c, dup)
  /\ LET row == [id |-> nextId, conversation_id |-> c, user_id |-> u,
                 content |-> <<"a">>, created_at |-> clock]
     IN /\ store' = Append(store, row)
        /\ lookups' = Deliver(lookups, row, dup)
  /\ redelivers' = IF dup THEN redelivers + 1 ELSE redelivers
  /\ nextId' = nextId + 1
  /\ clock' = clock + 1
  /\ UNCHANGED <<conversationId, messages, newMessage, loading, inserts,
                 fetches, msgSubs, typingSubs, shownErrors, opens, submits,
                 typVars>>
  /\ UNCHANGED outsideChat

\* setMessages((prev) => [...prev, ...]) of fetchMessageWithUser.
AppendLive_OnlyWithProfile(seq, e) == IF e.user = NoUser THEN seq ELSE Append(seq, e)
AppendLive(seq, e) == Append(seq, e)

\* Continuation of fetchMessageWithUser: the lookup of one delivered event
\* returns (any of those in flight may return first), with the profile
\* (found) or without, and the message is appended.
LookupDone(id, found) ==
  /\ lookups[id] > 0
  /\ lookups' = [lookups EXCEPT ![id] = @ - 1]
  /\ messages' = AppendLive(messages,
                   Entry(Row(id), IF found THEN Row(id).user_id ELSE NoUser))
  /\ UNCHANGED <<conversationId, newMessage, loading, clock, store, nextId,
                 inserts, fetches, msgSubs, typingSubs, shownErrors, opens,
                 redelivers, submits, typVars>>
  /\ UNCHANGED outsideChat

\* ------------------------------------------------------------------- spec
MsgNext ==
  \/ \E c \in Convs : OpenConversation(c)
  \/ \E f \in fetches : FetchServe(f) \/ FetchOk(f) \/ FetchFail(f)
  \/ \E t \in Texts : SetNewMessage(t)
  \/ HandleSendMessage
  \/ \E r \in inserts : PersistOk(r) \/ PersistFail(r)
  \/ \E r \in inserts, dup \in BOOLEAN : PersistRow(r, dup)
  \/ \E c \in Convs, u \in RemoteAuthors, dup \in BOOLEAN : RemoteInsert(c, u, dup)
  \/ \E id \in MsgIds, found \in BOOLEAN : LookupDone(id, found)

Spec == Init /\ [][MsgNext]_vars

\* A session in one open conversation: the state after OpenConversation("c1")
\* and the arrival of its (empty) history, from where the user composes and
\* sends while other clients insert.
InitSessionChat ==
  /\ conversationId = "c1"
  /\ messages = <<>>
  /\ newMessage = <<>>
  /\ loading = FALSE
  /\ typingUsers = <<>>
  /\ timers = {}
  /\ clock = 0
  /\ store = <<>>
  /\ nextId = 1
  /\ inserts = {}
  /\ fetches = {}
  /\ msgSubs = {"c1"}
  /\ typingSubs = {"c1"}
  /\ lookups = [i \in MsgIds |-> 0]
  /\ shownErrors = {}
  /\ opens = 1
  /\ redelivers = 0
  /\ submits = 0
  /\ typingLog = [u \in AllUsers |-> <<>>]

InitSession == InitSessionChat /\ InitOutside

SessionNext ==
  \/ \E t \in Texts : SetNewMessage(t)
  \/ HandleSendMessage
  \/ \E r \in inserts : PersistOk(r) \/ PersistFail(r)
  \/ \E r \in inserts, dup \in BOOLEAN : PersistRow(r, dup)
  \/ \E c \in Convs, u \in RemoteAuthors, dup \in BOOLEAN : RemoteInsert(c, u, dup)
  \/ \E id \in MsgIds, found \in BOOLEAN : LookupDone(id, found)

SpecSession == InitSession /\ [][SessionNext]_vars

\* ------------------------------------------------------ typing indicator
\* setTimeout(..., 2000) of the typing handler.
TypingTimeoutMs == 2000

\* The clock advances in steps of a twentieth of the typing window.
TickMs == TypingTimeoutMs \div 20

SeqSet(seq) == { seq[i] : i \in 1..Len(seq) }

\* setTypingUsers((prev) => prev.includes(u) ? prev : [...prev, u])
AddTyper_NoCheck(seq, u) == Append(seq, u)
AddTyper(seq, u) == IF u \in SeqSet(seq) THEN seq ELSE Append(seq, u)

\* setTypingUsers((prev) => prev.filter((id) => id !== u))
RemoveTyper_Keep(seq, u) == seq
RemoveTyper(seq, u) == SelectSeq(seq, LAMBDA x : x # u)

TotalTypingEvents_(log, us) ==
  LET RECURSIVE Sum(_)
      Sum(S) == IF S = {} THEN 0
                ELSE LET x == CHOOSE y \in S : TRUE
                     IN Len(log[x]) + Sum(S \ {x})
  IN Sum(us)
TotalTypingEvents == TotalTypingEvents_(typingLog, AllUsers)

\* The broadcast callback of a typing channel: a typing event of user u is
\* received at the current clock.
OnTypingEvent(u) ==
  /\ typingSubs # {}
  /\ TotalTypingEvents < MaxTypingEvents
  /\ typingLog' = [typingLog EXCEPT ![u] = Append(@, clock)]
  /\ IF u # userId
     THEN /\ typingUsers' = AddTyper(typingUsers, u)
          /\ timers' = timers \cup {[user |-> u, due |-> clock + TypingTimeoutMs]}
     ELSE UNCHANGED <<typingUsers, timers>>
  /\ UNCHANGED <<conversationId, messages, newMessage, loading, clock, store,
                 nextId, inserts, fetches, msgSubs, typingSubs, lookups,
                 shownErrors, opens, redelivers, submits>>
  /\ UNCHANGED outsideChat

\* A setTimeout callback runs when its delay has elapsed.
TimerFire(t) ==
  /\ t \in timers
  /\ t.due <= clock
  /\ typingUsers' = RemoveTyper(typingUsers, t.user)
  /\ timers' = timers \ {t}
  /\ UNCHANGED <<conversationId, messages, newMessage, loading, clock, store,
                 nextId, inserts, fetches, msgSubs, typingSubs, lookups,
                 shownErrors, typingLog, opens, redelivers, submits>>
  /\ UNCHANGED outsideChat

\* Time passes: up to TickMs, never beyond the next timer, and not while a due
\* timer callback is still to run.  Past MaxClock time is followed only from
\* one pending timer to the next.
Tick ==
  /\ \A t \in timers : t.due > clock
  /\ clock < MaxClock \/ timers # {}
  /\ LET step == clock + TickMs
         dues == { t.due : t \in timers }
         next == IF \E d \in dues : d < step \/ clock >= MaxClock
                 THEN CHOOSE d \in dues : \A e \in dues : d <= e
                 ELSE step
     IN clock' = next
  /\ UNCHANGED <<conversationId, messages, newMessage, loading, store, nextId,
                 inserts, fetches, msgSubs, typingSubs, lookups, shownErrors,
                 opens, redelivers, submits, typVars>>
  /\ UNCHANGED outsideChat

TypingNext ==
  \/ \E u \in AllUsers : OnTypingEvent(u)
  \/ \E t \in timers : TimerFire(t)
  \/ Tick

SpecTyping == InitSession /\ [][TypingNext]_vars

\* The event loop runs every timer callback that is due, and time goes on.
SpecTypingFair ==
  /\ SpecTyping
  /\ WF_vars(Tick)
  /\ WF_vars(\E t \in timers : TimerFire(t))

\* ------------------------------------------------- conversation list
\* create_direct_conversation(user1_id, user2_id) of the schema, called by
\* another client: one transaction.  When a direct conversation of the two
\* users exists it is returned and no table changes.
DirectOf(convs, members, a, b) ==
  { c \in ConvIds(convs) :
      /\ \E i \in 1..Len(convs) : convs[i].id = c /\ ~convs[i].is_group
      /\ c \in ConversationsOf(members, a)
      /\ c \in ConversationsOf(members, b) }

CreateDirectConversation(a, b) ==
  /\ a # b
  /\ DirectOf(convRows, memberRows, a, b) = {}
  /\ nextConv < MaxNewConvs
  /\ LET id == NewConvId(nextConv + 1)
     IN /\ convRows' = Append(convRows, ConvRow(id, FALSE, a))
        /\ memberRows' = memberRows \cup
                           { MemberRow(a, id, FALSE), MemberRow(b, id, FALSE) }
  /\ nextConv' = nextConv + 1
  /\ changeEvents' = changeEvents + 1
  /\ UNCHANGED <<rls, chatVars, listVars, formVars, routeVars>>

\* create_group_conversation(creator_id, ..., member_ids) of the schema,
\* called by another client: one transaction.
CreateGroupConversation(creator, members) ==
  /\ nextConv < MaxNewConvs
  /\ LET id == NewConvId(nextConv + 1)
     IN /\ convRows' = Append(convRows, ConvRow(id, TRUE, creator))
        /\ memberRows' = memberRows \cup { MemberRow(creator, id, TRUE) } \cup
                           { MemberRow(m, id, FALSE) : m \in members \ {creator} }
  /\ nextConv' = nextConv + 1
  /\ changeEvents' = changeEvents + 1
  /\ UNCHANGED <<rls, chatVars, listVars, formVars, routeVars>>

\* The postgres_changes callback of the channel "conversation-changes":
\* fetchConversations() up to its await.
OnConversationChange ==
  /\ changeEvents > 0
  /\ changeEvents' = changeEvents - 1
  /\ issued' = issued + 1
  /\ refreshes' = refreshes \cup
                    {[n |-> issued + 1, phase |-> "sent", data |-> <<>>,
                      asOf |-> AsOf(<<>>, {}, <<>>, issued + 1)]}
  /\ UNCHANGED <<convRows, memberRows, rls, nextConv, activeConversations,
                 listAsOf, chatVars, formVars, routeVars>>

\* The store evaluates the query of one fetchConversations call.
ListServe(r) ==
  /\ r \in refreshes
  /\ r.phase = "sent"
  /\ \E data \in ListResults(convRows, memberRows, store, userId) :
       refreshes' = (refreshes \ {r}) \cup
                      {[r EXCEPT !.phase = "served", !.data = data,
                                 !.asOf = AsOf(convRows, memberRows, store, r.n)]}
  /\ UNCHANGED <<storeVars, activeConversations, issued, listAsOf, chatVars,
                 formVars, routeVars>>

\* Continuation of fetchConversations with data: setActiveConversations(data).
ListApply(r) ==
  /\ r \in refreshes
  /\ r.phase = "served"
  /\ activeConversations' = r.data
  /\ listAsOf' = r.asOf
  /\ refreshes' = refreshes \ {r}
  /\ UNCHANGED <<storeVars, issued, chatVars, formVars, routeVars>>

\* Continuation of fetchConversations without data (the query failed):
\* if (data) is false and nothing is set.
ListFail(r) ==
  /\ r \in refreshes
  /\ r.phase = "sent"
  /\ refreshes' = refreshes \ {r}
  /\ UNCHANGED <<storeVars, activeConversations, issued, listAsOf, chatVars,
                 formVars, routeVars>>

\* Members of a conversation may write messages to it.
MayWrite(u, c) == c \in ConversationsOf(memberRows, u)

ListNext ==
  \/ \E a \in OtherUsers : CreateDirectConversation(a, userId)
  \/ \E a \in RemoteAuthors : CreateGroupConversation(a, OtherUsers)
  \/ \E c \in Convs, u \in RemoteAuthors : MayWrite(u, c) /\ RemoteInsert(c, u, FALSE)
  \/ OnConversationChange
  \/ \E r \in refreshes : ListServe(r) \/ ListApply(r) \/ ListFail(r)

SpecList == Init /\ [][ListNext]_vars

\* ------------------------------------------- new-conversation form
\* What the user types into the search box and into the group name field.
Terms == { <<>>, <<"u">> }
GroupNames == { <<>>, <<" ">>, <<"g">> }

\* profiles ... .or(ilike term) .neq("id", userId) .limit(5): both other
\* users match the term "u", which is within the limit.
Matches(term) == <<"u2", "u3">>

\* data.filter((user) => !selectedUsers.some((s) => s.id === user.id))
NotSelected(data, selected) ==
  SelectSeq(data, LAMBDA u : u \notin SeqSet(selected))

\* useEffect([searchUserTerm]): when the term changes, the cleanup clears the
\* pending timer and a new one is set; its callback keeps the searchUsers of
\* that render, and with it that render's searchUserTerm and selectedUsers.
SearchEffect(old, term, selected) ==
  IF term = old THEN debounce
  ELSE { [term |-> term, selected |-> selected] }

\* onClick of the "new chat" button.
OpenModal ==
  /\ ~showNewChatModal
  /\ showNewChatModal' = TRUE
  /\ UNCHANGED <<searchUserTerm, searchResults, selectedUsers, isGroup,
                 groupName, isLoading, error, debounce, searches, creates,
                 pushed, started, storeVars, listVars, chatVars, routeVars>>

\* onClick of the Direct Message / Group Chat buttons.
SetIsGroup(b) ==
  /\ showNewChatModal
  /\ b # isGroup
  /\ isGroup' = b
  /\ UNCHANGED <<showNewChatModal, searchUserTerm, searchResults,
                 selectedUsers, groupName, isLoading, error, debounce,
                 searches, creates, pushed, started, storeVars, listVars,
                 chatVars, routeVars>>

\* onChange of the group name input, which is rendered in group mode.
SetGroupName(t) ==
  /\ showNewChatModal
  /\ isGroup
  /\ t # groupName
  /\ groupName' = t
  /\ UNCHANGED <<showNewChatModal, searchUserTerm, searchResults,
                 selectedUsers, isGroup, isLoading, error, debounce, searches,
                 creates, pushed, started, storeVars, listVars, chatVars,
                 routeVars>>

\* onChange of the search box.
SetSearchUserTerm(t) ==
  /\ showNewChatModal
  /\ t # searchUserTerm
  /\ searchUserTerm' = t
  /\ debounce' = SearchEffect(searchUserTerm, t, selectedUsers)
  /\ UNCHANGED <<showNewChatModal, searchResults, selectedUsers, isGroup,
                 groupName, isLoading, error, searches, creates, pushed,
                 started, storeVars, listVars, chatVars, routeVars>>

\* The setTimeout callback of the search effect, 300 ms after the last change
\* of the term: searchUsers() up to its await, or setSearchResults([]).
DebounceFire(d) ==
  /\ d \in debounce
  /\ debounce' = {}
  /\ IF d.term = <<>>
     THEN /\ searchResults' = <<>>
          /\ UNCHANGED <<isLoading, error, searches, started>>
     ELSE IF Trim(d.term) = <<>>
     THEN UNCHANGED <<searchResults, isLoading, error, searches, started>>
     ELSE /\ started < MaxSearches
          /\ isLoading' = TRUE
          /\ error' = ""
          /\ started' = started + 1
          /\ searches' = searches \cup
                           {[n |-> started + 1, term |-> d.term,
                             selected |-> d.selected]}
          /\ UNCHANGED searchResults
  /\ UNCHANGED <<showNewChatModal, searchUserTerm, selectedUsers, isGroup,
                 groupName, creates, pushed, storeVars, listVars, chatVars,
                 routeVars>>

\* Continuation of searchUsers with data.
SearchOk(q) ==
  /\ q \in searches
  /\ searches' = searches \ {q}
  /\ searchResults' = NotSelected(Matches(q.term), q.selected)
  /\ isLoading' = FALSE
  /\ UNCHANGED <<showNewChatModal, searchUserTerm, selectedUsers, isGroup,
                 groupName, error, debounce, creates, pushed, started,
                 storeVars, listVars, chatVars, routeVars>>

\* Continuation of searchUsers with an error.
SearchFail(q) ==
  /\ q \in searches
  /\ searches' = searches \ {q}
  /\ error' = "Failed to search users"
  /\ isLoading' = FALSE
  /\ UNCHANGED <<showNewChatModal, searchUserTerm, searchResults,
                 selectedUsers, isGroup, groupName, debounce, creates, pushed,
                 started, storeVars, listVars, chatVars, routeVars>>

\* onClick of a search result: addUser(user).
AddUser(u) ==
  /\ showNewChatModal
  /\ u \in SeqSet(searchResults)
  /\ Len(selectedUsers) < MaxSelected
  /\ selectedUsers' = Append(selectedUsers, u)
  /\ searchResults' = SelectSeq(searchResults, LAMBDA x : x # u)
  /\ searchUserTerm' = <<>>
  /\ debounce' = SearchEffect(searchUserTerm, <<>>, selectedUsers')
  /\ UNCHANGED <<showNewChatModal, isGroup, groupName, isLoading, error,
                 searches, creates, pushed, started, storeVars, listVars,
                 chatVars, routeVars>>

\* onClick of the remove button of a selected user: removeUser(id).
RemoveUser(u) ==
  /\ showNewChatModal
  /\ u \in SeqSet(selectedUsers)
  /\ selectedUsers' = SelectSeq(selectedUsers, LAMBDA x : x # u)
  /\ UNCHANGED <<showNewChatModal, searchUserTerm, searchResults, isGroup,
                 groupName, isLoading, error, debounce, searches, creates,
                 pushed, started, storeVars, listVars, chatVars, routeVars>>

\* onClick of Cancel (disabled while isLoading).
Cancel ==
  /\ showNewChatModal
  /\ ~isLoading
  /\ showNewChatModal' = FALSE
  /\ selectedUsers' = <<>>
  /\ isGroup' = FALSE
  /\ groupName' = <<>>
  /\ searchUserTerm' = <<>>
  /\ error' = ""
  /\ debounce' = SearchEffect(searchUserTerm, <<>>, <<>>)
  /\ UNCHANGED <<searchResults, isLoading, searches, creates, pushed,
                 started, storeVars, listVars, chatVars, routeVars>>

\* ---------------------------------------------------- createConversation
\* if (selectedUsers.length === 0) / if (isGroup && !groupName.trim())
NoRecipient(selected) == Len(selected) = 0
BlankGroupName_NoTrim(group, name) == group /\ name = <<>>
BlankGroupName(group, name) == group /\ Trim(name) = <<>>

\* The rows createConversation sends to user_conversations: the current user,
\* then one per selected user; is_admin is not sent and takes its default.
MembershipRows_OnlySelected(id, users) ==
  [i \in 1..Len(users) |-> MemberRow(users[i], id, FALSE)]
MembershipRows(id, users) ==
  << MemberRow(userId, id, FALSE) >> \o
  [i \in 1..Len(users) |-> MemberRow(users[i], id, FALSE)]

\* Whether the store takes an insert of rows by the user auth: the constraint
\* UNIQUE(user_id, conversation_id) and, when the policies are installed,
\* WITH CHECK (user_id = auth.uid()) hold for every row, or none is inserted.
MembersPermitted(rows, auth, policy) ==
  /\ \A i, j \in 1..Len(rows) : rows[i].user_id = rows[j].user_id => i = j
  /\ \A i \in 1..Len(rows) :
       /\ MemberRow(rows[i].user_id, rows[i].conversation_id, TRUE) \notin memberRows
       /\ MemberRow(rows[i].user_id, rows[i].conversation_id, FALSE) \notin memberRows
  /\ policy => \A i \in 1..Len(rows) : rows[i].user_id = auth

\* createConversation up to its first await: validation, then the insert
\* into conversations is sent.
CreateConversation ==
  /\ showNewChatModal
  /\ IF NoRecipient(selectedUsers)
     THEN /\ error' = "Please select at least one user"
          /\ UNCHANGED <<isLoading, nextConv, creates>>
     ELSE IF BlankGroupName(isGroup, groupName)
     THEN /\ error' = "Please enter a group name"
          /\ UNCHANGED <<isLoading, nextConv, creates>>
     ELSE /\ nextConv < MaxNewConvs
          /\ isLoading' = TRUE
          /\ error' = ""
          /\ nextConv' = nextConv + 1
          /\ creates' = creates \cup
                          {[id |-> NewConvId(nextConv + 1),
                            users |-> selectedUsers, is_group |-> isGroup,
                            phase |-> "conversation sent"]}
  /\ UNCHANGED <<showNewChatModal, searchUserTerm, searchResults,
                 selectedUsers, isGroup, groupName, debounce, searches,
                 pushed, started, convRows, memberRows, rls, changeEvents,
                 listVars, chatVars, routeVars>>

\* onClick of Start Conversation, disabled={isLoading || selectedUsers.length === 0}.
StartEnabled == ~isLoading /\ Len(selectedUsers) # 0
ClickStart == StartEnabled /\ CreateConversation

Moved(cr, phase) == (creates \ {cr}) \cup {[cr EXCEPT !.phase = phase]}

\* The store takes the insert into conversations (WITH CHECK (true)).
StoreConversation(cr) ==
  /\ cr \in creates
  /\ cr.phase = "conversation sent"
  /\ convRows' = Append(convRows, ConvRow(cr.id, cr.is_group, NoUser))
  /\ changeEvents' = changeEvents + 1
  /\ creates' = Moved(cr, "conversation stored")
  /\ UNCHANGED <<memberRows, rls, nextConv, showNewChatModal, searchUserTerm,
                 searchResults, selectedUsers, isGroup, groupName, isLoading,
                 error, debounce, searches, pushed, started, listVars,
                 chatVars, routeVars>>

\* Continuation after the first insert succeeded: the insert into
\* user_conversations is sent.
ConversationOk(cr) ==
  /\ cr \in creates
  /\ cr.phase = "conversation stored"
  /\ creates' = Moved(cr, "members sent")
  /\ UNCHANGED <<storeVars, showNewChatModal, searchUserTerm, searchResults,
                 selectedUsers, isGroup, groupName, isLoading, error,
                 debounce, searches, pushed, started, listVars, chatVars,
                 routeVars>>

\* catch and finally of createConversation.
CreateFailed_Silent(cr, phase) ==
  /\ creates' = Moved(cr, phase)
  /\ isLoading' = FALSE
  /\ UNCHANGED <<storeVars, showNewChatModal, searchUserTerm, searchResults,
                 selectedUsers, isGroup, groupName, error, debounce, searches,
                 pushed, started, listVars, chatVars, routeVars>>
CreateFailed(cr, phase) ==
  /\ creates' = Moved(cr, phase)
  /\ error' = "Failed to create conversation"
  /\ isLoading' = FALSE
  /\ UNCHANGED <<storeVars, showNewChatModal, searchUserTerm, searchResults,
                 selectedUsers, isGroup, groupName, debounce, searches,
                 pushed, started, listVars, chatVars, routeVars>>

\* Continuation after the first insert failed.
ConversationFail(cr) ==
  /\ cr \in creates
  /\ cr.phase = "conversation sent"
  /\ CreateFailed(cr, "conversation failed")

\* The store takes the insert into user_conversations, all rows or none.
StoreMembers(cr) ==
  /\ cr \in creates
  /\ cr.phase = "members sent"
  /\ MembersPermitted(MembershipRows(cr.id, cr.users), userId, rls)
  /\ memberRows' = memberRows \cup SeqSet(MembershipRows(cr.id, cr.users))
  /\ creates' = Moved(cr, "members stored")
  /\ UNCHANGED <<convRows, rls, nextConv, changeEvents, showNewChatModal,
                 searchUserTerm, searchResults, selectedUsers, isGroup,
                 groupName, isLoading, error, debounce, searches, pushed,
                 started, listVars, chatVars, routeVars>>

\* Continuation after the second insert succeeded: the form is reset and
\* closed, router.push(`/chat/${conversationId}`), then finally.
MembersOk(cr) ==
  /\ cr \in creates
  /\ cr.phase = "members stored"
  /\ creates' = Moved(cr, "done")
  /\ showNewChatModal' = FALSE
  /\ selectedUsers' = <<>>
  /\ isGroup' = FALSE
  /\ groupName' = <<>>
  /\ searchUserTerm' = <<>>
  /\ debounce' = SearchEffect(searchUserTerm, <<>>, <<>>)
  /\ pushed' = Append(pushed, cr.id)
  /\ isLoading' = FALSE
  /\ UNCHANGED <<storeVars, searchResults, error, searches, started,
                 listVars, chatVars, routeVars>>

\* Continuation after the second insert failed.
MembersFail(cr) ==
  /\ cr \in creates
  /\ cr.phase = "members sent"
  /\ CreateFailed(cr, "members failed")

FormNext ==
  \/ OpenModal
  \/ \E b \in BOOLEAN : SetIsGroup(b)
  \/ \E t \in GroupNames : SetGroupName(t)
  \/ \E t \in Terms : SetSearchUserTerm(t)
  \/ \E d \in debounce : DebounceFire(d)
  \/ \E q \in searches : SearchOk(q) \/ SearchFail(q)
  \/ \E u \in OtherUsers : AddUser(u) \/ RemoveUser(u)
  \/ Cancel

\* The store and the continuations of the createConversation calls in flight.
CreationNext ==
  \/ \E cr \in creates : StoreConversation(cr) \/ ConversationOk(cr) \/ ConversationFail(cr)
  \/ \E cr \in creates : StoreMembers(cr) \/ MembersOk(cr) \/ MembersFail(cr)

SidebarNext == FormNext \/ ClickStart \/ CreationNext

\* The sidebar of a signed-in user, beside a store with or without the
\* row-level policies of the schema.
InitForm == InitChat /\ InitTables /\ rls \in BOOLEAN /\ InitSidebar /\ InitRoute

SpecSidebar == InitForm /\ [][SidebarNext]_vars

\* createConversation by itself: the handler is called on a form the user has
\* filled in any way, and its requests are followed to their outcomes.
SelectedInputs == { <<>>, <<"u2">>, <<"u2", "u3">> }

InitCreate ==
  /\ InitChat /\ InitTables /\ rls \in BOOLEAN /\ InitRoute
  /\ activeConversations \in ListResults(convRows, memberRows, store, userId)
  /\ listAsOf = AsOf(convRows, memberRows, store, 0)
  /\ refreshes = {}
  /\ issued = 0
  /\ showNewChatModal = TRUE
  /\ searchUserTerm = <<>>
  /\ searchResults = <<>>
  /\ selectedUsers \in SelectedInputs
  /\ isGroup \in BOOLEAN
  /\ groupName \in GroupNames
  /\ isLoading = FALSE
  /\ error = ""
  /\ debounce = {}
  /\ searches = {}
  /\ creates = {}
  /\ pushed = <<>>
  /\ started = 0

CreateNext == CreateConversation \/ CreationNext

SpecCreate == InitCreate /\ [][CreateNext]_vars

\* The form after a first search: the modal is open, the term "u" has been
\* searched and its results are shown, nobody is selected yet.  From there the
\* user types, picks and removes users and presses Start while searches and
\* creations are in flight.
InitSearch ==
  /\ InitChat /\ InitTables /\ rls \in BOOLEAN /\ InitRoute
  /\ activeConversations \in ListResults(convRows, memberRows, store, userId)
  /\ listAsOf = AsOf(convRows, memberRows, store, 0)
  /\ refreshes = {}
  /\ issued = 0
  /\ showNewChatModal = TRUE
  /\ searchUserTerm = <<"u">>
  /\ searchResults = Matches(<<"u">>)
  /\ selectedUsers = <<>>
  /\ isGroup = FALSE
  /\ groupName = <<>>
  /\ isLoading = FALSE
  /\ error = ""
  /\ debounce = {}
  /\ searches = {}
  /\ creates = {}
  /\ pushed = <<>>
  /\ started = 0

SearchNext ==
  \/ \E t \in Terms : SetSearchUserTerm(t)
  \/ \E d \in debounce : DebounceFire(d)
  \/ \E q \in searches : SearchOk(q) \/ SearchFail(q)
  \/ \E u \in OtherUsers : AddUser(u) \/ RemoveUser(u)
  \/ ClickStart
  \/ CreationNext

SpecSearch == InitSearch /\ [][SearchNext]_vars

\* ------------------------------------------------------------- pages
\* The conversations the user asks for by URL: c1, which exists, and n1,
\* which nobody has a membership row for.
RouteConvs == { "c1", "n1" }
ChatRoute(c) == "/chat/" \o c
Routes == { "/", "/chat", "/profile", "/auth/login" } \cup
          { ChatRoute(c) : c \in RouteConvs }
ConvOfRoute(r) == CHOOSE c \in RouteConvs : ChatRoute(c) = r
Blank == "blank"
IdleProfile == [loading |-> FALSE, error |-> FALSE, pending |-> FALSE]

\* A browser that requests any of the routes, with or without a session.
InitBrowser ==
  /\ session \in { "none", "active" }
  /\ route \in Routes
  /\ view = Blank
  /\ hops = <<>>
  /\ profile = IdleProfile
  /\ navs = 0

\* The user follows a link or enters a URL.
Navigate(r) ==
  /\ navs < MaxNavs
  /\ r # route
  /\ route' = r
  /\ hops' = <<>>
  /\ navs' = navs + 1
  /\ UNCHANGED <<session, view, profile, chatVars, sidebarVars>>

\* A redirect that ignores its target and goes to the home page.
Redirect_Home(to) ==
  /\ route' = "/"
  /\ hops' = Append(hops, route)
  /\ UNCHANGED <<session, view, profile, navs>>

\* redirect(to) of a server component.
Redirect(to) ==
  /\ route' = to
  /\ hops' = Append(hops, route)
  /\ UNCHANGED <<session, view, profile, navs>>

\* The page of the route is rendered.
Render ==
  /\ view' = route
  /\ UNCHANGED <<session, route, hops, profile, navs>>

\* Home: if (session) redirect("/chat").
ServeHome ==
  /\ route = "/" /\ view # route
  /\ IF session = "active" THEN Redirect("/chat") ELSE Render
  /\ UNCHANGED <<chatVars, sidebarVars>>

\* ChatPage of /chat: if (!session) redirect("/").
ServeChat ==
  /\ route = "/chat" /\ view # route
  /\ IF session # "active" THEN Redirect("/") ELSE Render
  /\ UNCHANGED <<chatVars, sidebarVars>>

\* ChatPage of /chat/[id]: if (!session) redirect("/"); then the membership
\* row of (session.user.id, params.id) is read: if (!userConversation)
\* redirect("/chat").
ServeConversation(c) ==
  /\ route = ChatRoute(c) /\ view # route
  /\ IF session # "active" THEN Redirect("/")
     ELSE IF c \notin ConversationsOf(memberRows, userId) THEN Redirect("/chat")
     ELSE Render
  /\ UNCHANGED <<chatVars, sidebarVars>>

\* The login page has no session check.
ServeLogin ==
  /\ route = "/auth/login" /\ view # route
  /\ Render
  /\ UNCHANGED <<chatVars, sidebarVars>>

\* ProfilePage is a client component: it renders its form at once, and its
\* effect runs getProfile up to await supabase.auth.getSession().
MountProfile ==
  /\ route = "/profile" /\ view # route
  /\ view' = route
  /\ profile' = [loading |-> TRUE, error |-> FALSE, pending |-> TRUE]
  /\ UNCHANGED <<session, route, hops, navs, chatVars, sidebarVars>>

\* What getSession may answer in a session state.
SessionAnswers(sess) ==
  IF sess = "active" THEN { "session", "error" } ELSE { "none", "error" }

\* Continuation of getProfile: sessionError is thrown to catch (setError);
\* without a session router.push("/auth/login"); with one the profile row is
\* read (its failure is thrown to catch as well).  finally: setLoading(false).
ProfileSession(answer, rowError) ==
  /\ profile.pending
  /\ answer \in SessionAnswers(session)
  /\ rowError => answer = "session"
  /\ profile' = [loading |-> FALSE, pending |-> FALSE,
                 error |-> (answer = "error" \/ rowError)]
  /\ IF answer = "none"
     THEN /\ route' = "/auth/login"
          /\ hops' = Append(hops, route)
     ELSE UNCHANGED <<route, hops>>
  /\ UNCHANGED <<session, view, navs, chatVars, sidebarVars>>

\* Login.onSubmit succeeded: router.push("/chat").
SignIn ==
  /\ view = "/auth/login" /\ route = view
  /\ session = "none"
  /\ session' = "active"
  /\ route' = "/chat"
  /\ hops' = <<>>
  /\ UNCHANGED <<view, profile, navs, chatVars, sidebarVars>>

\* The session ends (expiry, or sign-out in another tab).
SessionEnds ==
  /\ session = "active"
  /\ session' = "none"
  /\ UNCHANGED <<route, view, hops, profile, navs, chatVars, sidebarVars>>

RouteNext ==
  \/ \E r \in Routes : Navigate(r)
  \/ ServeHome
  \/ ServeChat
  \/ \E c \in RouteConvs : ServeConversation(c)
  \/ ServeLogin
  \/ MountProfile
  \/ \E a \in { "session", "none", "error" }, e \in BOOLEAN : ProfileSession(a, e)
  \/ SignIn
  \/ SessionEnds

\* The tables under the pages: as seeded, or with c1 a conversation of other
\* users only (the local user has no membership row for it).
InitPageTables ==
  /\ convRows = << ConvRow("c1", FALSE, userId), ConvRow("c2", TRUE, "u2") >>
  /\ memberRows \in { SeedMembers, SeedMembers \ { MemberRow(userId, "c1", FALSE) } }
  /\ nextConv = 0
  /\ changeEvents = 0

InitPages ==
  InitChat /\ InitPageTables /\ rls = TRUE /\ InitSidebar /\ InitBrowser

SpecRoute == InitPages /\ [][RouteNext]_vars

\* The three server-rendered routes under a session state and a membership
\* state that stay as they are: the server answers every request.
NavRoutes == { "/", "/chat" } \cup { ChatRoute(c) : c \in RouteConvs }

InitNavigate == InitPages /\ route \in NavRoutes

ServeNext ==
  \/ ServeHome
  \/ ServeChat
  \/ \E c \in RouteConvs : ServeConversation(c)

NavigateNext ==
  \/ \E r \in NavRoutes : Navigate(r)
  \/ ServeNext

SpecNavigate == InitNavigate /\ [][NavigateNext]_vars /\ WF_vars(ServeNext)

\* ================================================================ claims
\* Identifiers handed out so far that are neither persisted nor in flight:
\* the sends whose insert failed.
StoredIds == Ids(store)
InFlightIds == { r.msg.id : r \in inserts }
FailedIds == { id \in 1..(nextId - 1) : id \notin StoredIds \cup InFlightIds }
OwnStoredIds == { store[i].id : i \in { j \in 1..Len(store) : store[j].user_id = userId } }

\* The step of the error branch of handleSendMessage for request r.
IsPersistFailStep(r) == r.phase = "sent" /\ inserts' = inserts \ {r}

\* The step of the error branch of fetchMessages for query f.
IsFetchFailStep(f) == f.phase = "sent" /\ fetches' = fetches \ {f}

\* C1: once a message the user sent is persisted, its acknowledgement has
\* arrived and no echo of it is still in flight, the local sequence holds its
\* identifier exactly once (whether the echo came before the acknowledgement,
\* after it, or not at all).
C1_EchoExactlyOnce ==
  \A id \in OwnStoredIds :
    (id \notin InFlightIds /\ lookups[id] = 0) => Count(messages, id) = 1

\* C2: no two entries of the local message sequence share an identifier.
C2_NoDuplicateIds ==
  \A i, j \in 1..Len(messages) : i # j => messages[i].id # messages[j].id

\* C3 (as stated): when the insert of a send fails, the sequence after the
\* rollback is the sequence as it was immediately before the send.
C3_RollbackToPreSend ==
  [][\A r \in inserts : IsPersistFailStep(r) => messages' = r.pre]_vars

\* C3 (amended): when the insert of a send fails, the sequence after the
\* rollback is the sequence as it was immediately before the rollback with the
\* optimistically appended record removed, every other message kept in its
\* place; it is the sequence as it was before the send whenever nothing else
\* changed the sequence in between.
C3_RollbackExact ==
  [][\A r \in inserts : IsPersistFailStep(r) =>
        /\ messages' = SelectSeq(messages, LAMBDA m : m.id # r.msg.id)
        /\ r.msg.id \notin Ids(messages')
        /\ (messages = Append(r.pre, Entry(r.msg, NoUser)) => messages' = r.pre)
    ]_vars

\* C3 witness: a send has been rolled back while a message that arrived
\* after the optimistic append is kept.
C3_Witness ==
  /\ FailedIds # {}
  /\ \E i \in 1..Len(messages) : \E id \in FailedIds : messages[i].id > id

\* C4: every send whose insert failed has been surfaced to the user or the
\* caller as an error.
C4_FailureSurfaced == FailedIds \subseteq shownErrors

\* C5: a local sequence made of live inserts of other users only, each applied
\* once, has non-decreasing creation timestamps.
C5_LiveInsertsOrdered ==
  ( /\ \A i \in 1..Len(messages) : messages[i].user_id \in RemoteAuthors
    /\ C2_NoDuplicateIds )
  => \A i \in 1..(Len(messages) - 1) :
        messages[i].created_at <= messages[i + 1].created_at

\* C6: only the active conversation has live channels (those of the previous
\* conversation are torn down on a switch), and every message of the local
\* sequence belongs to the active conversation.
C6_StaleSubscriptionNoOp ==
  /\ msgSubs \subseteq {conversationId}
  /\ typingSubs \subseteq {conversationId}
  /\ \A i \in 1..Len(messages) : messages[i].conversation_id = conversationId

\* C7: when the history query of the conversation being opened fails, the
\* view is left with an empty sequence or with an error shown.
C7_FetchFailureClears ==
  [][\A f \in fetches : (IsFetchFailStep(f) /\ f.n = opens) =>
        (messages' = <<>> \/ shownErrors' # {})]_vars

\* C8: a submission of the composer with empty or whitespace-only text
\* generates no identifier, leaves the local sequence and the composer text as
\* they are and issues no insert request.
C8_BlankSendIsNoOp ==
  [][(submits' # submits /\ Trim(newMessage) = <<>>) =>
        UNCHANGED <<messages, newMessage, nextId, clock, inserts, store,
                    lookups>>]_vars

\* C8 witness: the form was submitted with whitespace-only text in the open
\* conversation and nothing was sent.
C8_Witness ==
  /\ submits = 1
  /\ newMessage = <<" ">>
  /\ conversationId # NoConv
  /\ nextId = 1
  /\ messages = <<>>
  /\ inserts = {}

\* C9: while the insert request of a send is in flight, the message is in the
\* local sequence.
C9_OptimisticVisible ==
  \A r \in inserts : r.msg.id \in Ids(messages)

\* C10: a remote user with a single typing event, received at time T, is in
\* the active-typer set at every time before T + 2 s and absent from it at
\* every time after T + 2 s.
C10_TypingExpiry ==
  \A u \in OtherUsers :
    Len(typingLog[u]) = 1 =>
      LET T == typingLog[u][1]
      IN /\ clock < T + 2000 => u \in SeqSet(typingUsers)
         /\ clock > T + 2000 => u \notin SeqSet(typingUsers)

\* C10 witness: 2.1 s after the only typing event of a remote user, that user
\* is no longer shown as typing.
C10_Witness ==
  \E u \in OtherUsers :
    /\ Len(typingLog[u]) = 1
    /\ clock = typingLog[u][1] + 2100
    /\ u \notin SeqSet(typingUsers)

\* C11: when two typing events of a remote user are received at T1 and T2
\* with T1 < T2 < T1 + 2 s, the user is in the active-typer set at every time
\* before T2 + 2 s (the second event restarts the countdown).
C11_TypingRestart ==
  \A u \in OtherUsers :
    Len(typingLog[u]) = 2 =>
      LET T1 == typingLog[u][1]
          T2 == typingLog[u][2]
      IN (T1 < T2 /\ T2 < T1 + 2000 /\ clock < T2 + 2000)
           => u \in SeqSet(typingUsers)

\* C12: the local user is never in the active-typer set and no removal is
\* ever scheduled for the local user; no user is in the set twice.
C12_NeverSelfNoDuplicates ==
  /\ userId \notin SeqSet(typingUsers)
  /\ \A t \in timers : t.user # userId
  /\ \A i, j \in 1..Len(typingUsers) :
       typingUsers[i] = typingUsers[j] => i = j

\* C12 witness: typing events of the local user and of a remote user have
\* been received, and only the remote user is shown as typing.
C12_Witness ==
  /\ Len(typingLog[userId]) = 1
  /\ \E u \in OtherUsers : Len(typingLog[u]) = 1 /\ typingUsers = <<u>>

\* Position of a conversation in the table: its creation order.
CreatedAt(convs, c) == CHOOSE i \in 1..Len(convs) : convs[i].id = c

\* C13: the conversation list holds exactly the conversations the local user
\* had a membership row for when its query was evaluated, each of them once.
C13_ListIsMembership ==
  /\ Ids(activeConversations) = ConversationsOf(listAsOf.members, userId)
  /\ Len(activeConversations) = Cardinality(Ids(activeConversations))

\* C13 witness: a refresh was applied whose query saw a new conversation of
\* the local user and a new one the local user is no member of; the list has
\* the former and not the latter.
C13_Witness ==
  /\ Len(listAsOf.convs) = 4
  /\ \E c, d \in ConvIds(listAsOf.convs) \ Convs :
       /\ c \in ConversationsOf(listAsOf.members, userId)
       /\ c \in Ids(activeConversations)
       /\ d \notin ConversationsOf(listAsOf.members, userId)
       /\ d \notin Ids(activeConversations)

\* C14: the list is in descending order of conversation creation, and each
\* entry carries no message when its conversation had none at query time and
\* otherwise exactly the most recent message the conversation had then.
C14_NewestFirstLastMessage ==
  /\ \A i, j \in 1..Len(activeConversations) :
       i < j => CreatedAt(listAsOf.convs, activeConversations[i].id)
                  > CreatedAt(listAsOf.convs, activeConversations[j].id)
  /\ \A i \in 1..Len(activeConversations) :
       LET it == activeConversations[i]
           ms == MessagesOf(store, listAsOf.msgs, it.id)
       IN IF ms = {}
          THEN it.last_message = <<>>
          ELSE /\ Len(it.last_message) = 1
               /\ it.last_message[1] \in ms
               /\ \A m \in ms :
                    Row(m).created_at <= Row(it.last_message[1]).created_at

\* C15: when createConversation runs with no user selected, or in group mode
\* with a group name that is empty after trimming, no insert is issued (no
\* identifier is drawn and no request is added) and the step changes nothing
\* but the inline error, which becomes the validation message.
C15_ValidationBeforeInsert ==
  [][ (showNewChatModal /\
        (Len(selectedUsers) = 0 \/ (isGroup /\ Trim(groupName) = <<>>)))
      => /\ nextConv' = nextConv
         /\ \A cr \in creates' : cr \in creates \/ cr.id \in { x.id : x \in creates }
         /\ creates' = creates =>
              /\ error' = IF Len(selectedUsers) = 0
                          THEN "Please select at least one user"
                          ELSE "Please enter a group name"
              /\ UNCHANGED <<storeVars, listVars, showNewChatModal,
                             searchUserTerm, searchResults, selectedUsers,
                             isGroup, groupName, isLoading, debounce,
                             searches, pushed, started>> ]_vars

\* C15 witness: in group mode with users selected and a group name of one
\* blank, createConversation has set the validation message and nothing has
\* been sent.
C15_Witness ==
  /\ isGroup /\ groupName = <<" ">> /\ Len(selectedUsers) > 0
  /\ error = "Please enter a group name"
  /\ creates = {} /\ nextConv = 0 /\ ~isLoading

\* The membership rows of a conversation.
MembersIn(c) == { m \in memberRows : m.conversation_id = c }

\* C16: once the second insert of a createConversation call has succeeded,
\* the conversations table has exactly one row with the identifier the client
\* drew, and user_conversations has for that identifier exactly one row for
\* the current user and for each selected user and no other row; the client
\* navigates to a conversation only after that.
C16_CreatedRowsThenNavigate ==
  /\ \A cr \in creates :
       cr.phase \in {"members stored", "done"} =>
         /\ Cardinality({ i \in 1..Len(convRows) : convRows[i].id = cr.id }) = 1
         /\ { m.user_id : m \in MembersIn(cr.id) } = {userId} \cup SeqSet(cr.users)
         /\ \A u \in AllUsers :
              Cardinality({ m \in MembersIn(cr.id) : m.user_id = u }) <= 1
  /\ \A i \in 1..Len(pushed) :
       \E cr \in creates : cr.id = pushed[i] /\ cr.phase = "done"

\* C16 witness: a conversation with two selected users was created and the
\* client was navigated to it.
C16_Witness ==
  \E cr \in creates :
    /\ cr.phase = "done" /\ Len(cr.users) = 2
    /\ pushed = << cr.id >>

\* C17: after the membership insert of a createConversation call has failed,
\* its conversation row is still in the table, the client has not been
\* navigated to it, and the conversation is in no user's list query result;
\* the failing step shows the error message and navigates nowhere.
C17_OrphanStaysUnlisted ==
  /\ [](\A cr \in creates :
          cr.phase = "members failed" =>
            /\ cr.id \in ConvIds(convRows)
            /\ cr.id \notin SeqSet(pushed)
            /\ \A u \in AllUsers :
                 cr.id \notin Ids(SelectConversations(convRows, memberRows, u)))
  /\ [][ (\E cr \in creates' : cr.phase = "members failed" /\ cr \notin creates)
         => /\ error' = "Failed to create conversation"
            /\ pushed' = pushed
            /\ convRows' = convRows ]_vars

\* C17 witness: the membership insert failed for a conversation whose row was
\* stored; the row is there without any member.
C17_Witness ==
  \E cr \in creates :
    /\ cr.phase = "members failed"
    /\ cr.id \in ConvIds(convRows)
    /\ MembersIn(cr.id) = {}
    /\ error = "Failed to create conversation"

\* C18: every group conversation that createConversation has created has a
\* membership row of the current user with the admin flag set, and a
\* membership row of every selected user.
C18_GroupCreatorIsAdmin ==
  \A cr \in creates :
    (cr.is_group /\ cr.phase \in {"members stored", "done"}) =>
      /\ MemberRow(userId, cr.id, TRUE) \in memberRows
      /\ \A u \in SeqSet(cr.users) : \E m \in MembersIn(cr.id) : m.user_id = u

ProtectedRoutes == { "/chat", "/profile" } \cup { ChatRoute(c) : c \in RouteConvs }
LoginEntry == { "/", "/auth/login" }

\* C20: a step taken while there is no session never puts a protected page on
\* the screen and never makes the profile page show an error, and when such a
\* step answers the request for a protected route the browser is sent to the
\* login entry point.
C20_NoSessionRedirects ==
  [][ session = "none" =>
        /\ view' # view => view' \notin ProtectedRoutes
        /\ profile'.error => profile.error
        /\ (route \in ProtectedRoutes /\ (route' # route \/ view' # view)
              /\ navs' = navs)
             => route' \in LoginEntry ]_vars

\* C21: a step in which the author lookup of a delivered insert event
\* completes appends exactly one entry for that message at the end of the
\* local sequence, with the author or (no profile found) without; the
\* delivery of the event itself, before the lookup has completed, appends
\* nothing.
C21_OneAppendPerEvent ==
  [][\A id \in MsgIds :
       /\ lookups'[id] < lookups[id] =>
            /\ lookups'[id] = lookups[id] - 1
            /\ Len(messages') = Len(messages) + 1
            /\ SubSeq(messages', 1, Len(messages)) = messages
            /\ messages'[Len(messages')] \in
                 { Entry(Row(id), NoUser), Entry(Row(id), Row(id).user_id) }
       /\ lookups'[id] > lookups[id] => messages' = messages
    ]_vars

\* C21 witness: the message of another user was appended without author
\* summary behind an earlier message, and no lookup is outstanding.
C21_Witness ==
  /\ Len(messages) = 2
  /\ messages[2].user_id \in RemoteAuthors
  /\ messages[2].user = NoUser
  /\ \A id \in MsgIds : lookups[id] = 0

\* C22: the page of /chat/c is rendered only in a step taken with a session
\* and with a membership row of (local user, c) in the table at that moment;
\* a request for /chat/c with a session and without such a row leaves that
\* route only by a redirect to /chat (or by the user navigating elsewhere),
\* with the rendered page as it was.
IsMember(c) ==
  \E m \in memberRows : m.user_id = userId /\ m.conversation_id = c

C22_RenderOnlyForMembers ==
  [][\A c \in RouteConvs :
       /\ (view' = ChatRoute(c) /\ view # ChatRoute(c)) =>
            session = "active" /\ IsMember(c)
       /\ ( /\ route = ChatRoute(c) /\ view # route
            /\ session = "active" /\ ~IsMember(c)
            /\ navs' = navs /\ route' # route ) =>
            /\ route' = "/chat"
            /\ hops' = Append(hops, route)
            /\ view' = view
    ]_vars

\* The user asked for /chat/c1 without being a member and now sees /chat.
C22_Witness ==
  /\ hops = << ChatRoute("c1") >>
  /\ ~IsMember("c1")
  /\ session = "active"
  /\ view = "/chat"

\* C23: the list is never replaced by the result of a refresh issued earlier
\* than the one whose result it shows; so once no refresh is in flight the
\* list shows the result of the latest refresh that had one.
C23_NoOlderResultApplied ==
  [][listAsOf'.n >= listAsOf.n]_vars

\* C24: while the conversation opened first is still the open one, every
\* message of the local user whose insert succeeded is in the local sequence.
C24_PersistedStaysVisible ==
  opens = 1 =>
    \A id \in OwnStoredIds : id \notin InFlightIds => id \in Ids(messages)

\* The createConversation calls that have not reached their outcome.
InFlightCreates ==
  { cr \in creates : cr.phase \in { "conversation sent", "conversation stored",
                                     "members sent", "members stored" } }

\* C25: at most one createConversation call is in flight, and while one is in
\* flight the Start Conversation button is disabled.
C25_OneCreationInFlight ==
  /\ Cardinality(InFlightCreates) <= 1
  /\ InFlightCreates # {} => ~StartEnabled

\* C26: selectedUsers holds no user twice and never the current user, and the
\* membership rows of every createConversation call are pairwise distinct.
C26_SelectedUsersDistinct ==
  /\ \A i, j \in 1..Len(selectedUsers) :
       selectedUsers[i] = selectedUsers[j] => i = j
  /\ userId \notin SeqSet(selectedUsers)
  /\ \A cr \in creates :
       LET rows == MembershipRows(cr.id, cr.users)
       IN \A i, j \in 1..Len(rows) : rows[i] = rows[j] => i = j

\* C27: a conversation created by createConversation with the group flag off
\* has, once its membership rows are stored, exactly two of them: the creator
\* and one other user.
C27_DirectHasTwoMembers ==
  \A cr \in creates :
    (~cr.is_group /\ cr.phase \in {"members stored", "done"}) =>
      /\ Cardinality(MembersIn(cr.id)) = 2
      /\ \E u \in OtherUsers :
           { m.user_id : m \in MembersIn(cr.id) } = { userId, u }

\* C28: with the row-level policies installed, the membership insert of a
\* createConversation call with at least one selected user, once sent, can be
\* taken by the store.
C28_PolicyAdmitsMembers ==
  \A cr \in creates :
    (rls /\ cr.phase = "members sent" /\ Len(cr.users) >= 1) =>
      ENABLED StoreMembers(cr)

\* C29: a remote user is out of the active-typer set at every time later than
\* 2 s after the last typing event of that user, and once typing events have
\* stopped the set becomes empty and stays empty.
C29_TypersEventuallyGone ==
  /\ [](\A u \in OtherUsers :
         (Len(typingLog[u]) > 0 /\
          clock > typingLog[u][Len(typingLog[u])] + TypingTimeoutMs)
           => u \notin SeqSet(typingUsers))
  /\ <>[](typingUsers = <<>>)

\* C29 witness: two remote users have typed, the later event is more than 2 s
\* old and nobody is shown as typing.
C29_Witness ==
  /\ \A u \in OtherUsers :
       /\ Len(typingLog[u]) = 1
       /\ clock > typingLog[u][1] + TypingTimeoutMs
  /\ \E u, v \in OtherUsers : typingLog[u][1] < typingLog[v][1]
  /\ typingUsers = <<>>
  /\ timers = {}

\* C30: with the session and the memberships fixed, a request for /, /chat or
\* /chat/[id] is redirected at most twice and never to a route it has already
\* been at, and it ends at a rendered page.
C30_RedirectsEnd ==
  /\ [](Len(hops) <= 2)
  /\ [](LET path == Append(hops, route)
        IN \A i, j \in 1..Len(path) : path[i] = path[j] => i = j)
  /\ (view # route) ~> (view = route)

\* C30 witness: without a session the request for a conversation was
\* redirected once and the home page is rendered.
C30_Witness ==
  /\ session = "none"
  /\ hops = << ChatRoute("n1") >>
  /\ route = "/"
  /\ view = "/"

====
